---- MODULE Spec2Model ----
(***************************************************************************)
(* Deskhand: the session store (JSON-lines logs), and the agent relay of   *)
(* the Electron main process (managed sessions, send / cancel / delete,    *)
(* translation of the agent's event stream into session events).           *)
(*                                                                         *)
(* A text is a sequence of one-character strings.  A file is a sequence of *)
(* tokens: a character of a JSON string literal, or the head of a JSON     *)
(* object, which stands for the object's non-text fields.  Lines are what  *)
(* split('\n') makes of the file, so that framing and escaping are part of *)
(* the model.                                                              *)
(***************************************************************************)
EXTENDS Integers, Sequences, FiniteSets, TLC

VARIABLES
  files,      \* sessions directory: session id -> content of <id>.jsonl
  now,        \* Date.now()
  issued,     \* the session ids generateId has returned so far
  appended,   \* history: per existing log, the messages appendMessage has added
  lastAppend, \* how the latest appendMessage call ended
  heap,       \* the ManagedSession objects ever allocated
  table,      \* managedSessions: session id -> index into heap
  sends,      \* the handleSendMessage invocations that passed the isProcessing guard
  sendCalls,  \* the number of send-message requests so far
  input,      \* what the latest step was given: a send request, or an agent event
  emitted,    \* the session events the latest step sent to the renderer windows
  cred,       \* the credentials file, the calls in flight on it, and their history
  conf        \* the config file, the defaultConfig object, and the latest response

vars == <<files, now, issued, appended, lastAppend,
          heap, table, sends, sendCalls, input, emitted, cred, conf>>

storeVars == <<files, now, issued, appended, lastAppend>>
relayVars == <<heap, table, sends, sendCalls, input, emitted>>
settingsVars == <<cred, conf>>

----------------------------------------------------------------------------
(* Bounds *)

MaxAppends  == 2     \* direct appendMessage calls (StoreSpec)
MaxClock    == 1     \* ticks of Date.now()
MaxSends    == 2     \* send-message requests
MaxStream   == 1     \* events of one agent stream before its closing events
MaxPending  == 2     \* saveCredentials and loadCredentials calls in flight

\* the ids generateId returns for sessions: to the renderer's create-session
\* requests (Spec), and to a caller of the store (StoreSpec)
SessionIds == {"s1"}
StoreIds   == {"s1", "s2"}

----------------------------------------------------------------------------
(* Texts and tokens *)

NL == "\n"
BS == "\\"

Null == [null |-> TRUE]

Chr(c)         == [k |-> "chr", s |-> c, n |-> 0, u |-> 0]
MsgHead(role)  == [k |-> "message", s |-> role, n |-> 0, u |-> 0]
SesHead(id, t) == [k |-> "session", s |-> id, n |-> 0, u |-> t]

IsNL(tok) == tok.k = "chr" /\ tok.s = NL

NewChat == <<"N", "e", "w", " ", "C", "h", "a", "t">>

MessageRoles == {"user", "assistant", "tool", "error", "warning"}

\* The texts the environment supplies: empty, plain, and one that holds a
\* newline, a backslash and the two characters of an escape sequence.
PlainText == <<"h", "i">>
TrickyText == <<NL, BS, "n">>
Texts == {<< >>, TrickyText}

\* faulty variant: the characters are written as they are, nothing is escaped
JsonStringRaw(text) == [i \in 1 .. Len(text) |-> Chr(text[i])]

\* JSON.stringify of a string: newline and backslash are escaped.  The text is
\* converted half by half, which keeps the evaluation shallow for long texts.
RECURSIVE JsonString(_)
JsonString(text) ==
  IF text = << >> THEN << >>
  ELSE IF Len(text) = 1 THEN
    LET c == text[1]
    IN IF c = NL THEN <<Chr(BS), Chr("n")>>
       ELSE IF c = BS THEN <<Chr(BS), Chr(BS)>>
       ELSE <<Chr(c)>>
  ELSE LET h == Len(text) \div 2
       IN JsonString(SubSeq(text, 1, h)) \o JsonString(SubSeq(text, h + 1, Len(text)))

\* JSON.parse of the characters of a string literal, read half by half:
\* [ok, text, pending], where pending says that the last character read is a
\* backslash that opens an escape sequence.
RECURSIVE Unescape(_, _)
Unescape(toks, pending) ==
  IF toks = << >> THEN [ok |-> TRUE, text |-> << >>, pending |-> pending]
  ELSE IF Len(toks) = 1 THEN
    LET t == toks[1] IN
    IF t.k # "chr" \/ t.s = NL THEN [ok |-> FALSE, text |-> << >>, pending |-> FALSE]
    ELSE IF pending THEN
      IF t.s \in {"n", BS}
      THEN [ok |-> TRUE, text |-> <<IF t.s = "n" THEN NL ELSE BS>>, pending |-> FALSE]
      ELSE [ok |-> FALSE, text |-> << >>, pending |-> FALSE]
    ELSE IF t.s = BS THEN [ok |-> TRUE, text |-> << >>, pending |-> TRUE]
    ELSE [ok |-> TRUE, text |-> <<t.s>>, pending |-> FALSE]
  ELSE LET h == Len(toks) \div 2
           l == Unescape(SubSeq(toks, 1, h), pending)
           r == Unescape(SubSeq(toks, h + 1, Len(toks)), l.pending)
       IN IF ~l.ok THEN l
          ELSE [ok |-> r.ok, text |-> l.text \o r.text, pending |-> r.pending]

\* JSON.parse of a string literal: <<ok, text>>.
JsonUnstring(toks) ==
  LET r == Unescape(toks, FALSE)
  IN IF r.ok /\ ~r.pending THEN <<TRUE, r.text>> ELSE <<FALSE, << >> >>

\* JSON.stringify({ type: 'message', ...message })
StringifyMessage(m) == <<MsgHead(m.role)>> \o JsonString(m.content)

\* JSON.stringify({ type: 'session', ...session })
StringifySession(s) == <<SesHead(s.id, s.updatedAt)>> \o JsonString(s.name)

\* JSON.parse(line): [ok, type, ...]; ok is FALSE where JSON.parse throws.
JsonParse(line) ==
  IF line = << >> \/ Head(line).k = "chr" THEN [ok |-> FALSE]
  ELSE LET h == Head(line)
           r == JsonUnstring(Tail(line))
       IN IF ~r[1] THEN [ok |-> FALSE]
          ELSE IF h.k = "session"
          THEN [ok |-> TRUE, type |-> "session",
                data |-> [id |-> h.s, name |-> r[2], updatedAt |-> h.u]]
          ELSE [ok |-> TRUE, type |-> "message",
                data |-> [role |-> h.s, content |-> r[2]]]

\* SessionSchema.parse / MessageSchema.parse of the parsed object without its type
SessionSchemaOk(p) == p.type = "session"
MessageSchemaOk(p) == p.type = "message" /\ p.data.role \in MessageRoles

\* content.split('\n'), half by half: the last line of the first half and the
\* first line of the second half are one line
RECURSIVE Split(_)
Split(toks) ==
  IF toks = << >> THEN << << >> >>
  ELSE IF Len(toks) = 1 THEN
    IF IsNL(toks[1]) THEN << << >>, << >> >> ELSE <<toks>>
  ELSE LET h == Len(toks) \div 2
           l == Split(SubSeq(toks, 1, h))
           r == Split(SubSeq(toks, h + 1, Len(toks)))
       IN SubSeq(l, 1, Len(l) - 1) \o <<l[Len(l)] \o r[1]>> \o Tail(r)

\* lines.join('\n')
RECURSIVE Join(_)
Join(lines) ==
  IF lines = << >> THEN << >>
  ELSE IF Len(lines) = 1 THEN lines[1]
  ELSE lines[1] \o <<Chr(NL)>> \o Join(Tail(lines))

\* content.trim(): the only white space of the model is the newline
RECURSIVE TrimLeft(_)
TrimLeft(toks) ==
  IF toks # << >> /\ IsNL(Head(toks)) THEN TrimLeft(Tail(toks)) ELSE toks

RECURSIVE TrimRight(_)
TrimRight(toks) ==
  IF toks # << >> /\ IsNL(toks[Len(toks)])
  THEN TrimRight(SubSeq(toks, 1, Len(toks) - 1)) ELSE toks

Trim(toks) == TrimRight(TrimLeft(toks))

\* .filter(Boolean) on lines
FilterNonEmpty(lines) == SelectSeq(lines, LAMBDA l : l # << >>)

Exists(fs, id) == id \in DOMAIN fs

----------------------------------------------------------------------------
(* Session store *)

\* loadSession: Null, or [session, messages]
RECURSIVE LoadLines(_, _, _)
LoadLines(lines, session, messages) ==
  IF lines = << >> THEN
    IF session = Null THEN Null
    ELSE [session |-> session, messages |-> messages]
  ELSE LET p == JsonParse(Head(lines)) IN
    IF ~p.ok THEN Null
    ELSE IF p.type = "session" THEN
      IF SessionSchemaOk(p) THEN LoadLines(Tail(lines), p.data, messages)
      ELSE Null
    ELSE IF MessageSchemaOk(p)
      THEN LoadLines(Tail(lines), session, Append(messages, p.data))
      ELSE Null

loadSession(fs, id) ==
  IF ~Exists(fs, id) THEN Null
  ELSE LoadLines(FilterNonEmpty(Split(Trim(fs[id]))), Null, << >>)

\* faulty variant: the updated metadata record is written after the last line
updateSessionMetadataAtEnd(fs, id, updates) ==
  IF ~Exists(fs, id) THEN [ok |-> FALSE, files |-> fs]
  ELSE LET lines == Split(Trim(fs[id]))
           first == JsonParse(lines[1])
       IN IF ~first.ok \/ ~SessionSchemaOk(first)
          THEN [ok |-> FALSE, files |-> fs]
          ELSE LET updated == updates @@ first.data
                   out == Append(Tail(lines), StringifySession(updated))
               IN [ok |-> TRUE, session |-> updated,
                   files |-> [fs EXCEPT ![id] = Join(out) \o <<Chr(NL)>>]]

\* updateSessionMetadata: [ok, session, files]
updateSessionMetadata(fs, id, updates) ==
  IF ~Exists(fs, id) THEN [ok |-> FALSE, files |-> fs]
  ELSE LET lines == Split(Trim(fs[id]))
           first == JsonParse(lines[1])
       IN IF ~first.ok \/ ~SessionSchemaOk(first)
          THEN [ok |-> FALSE, files |-> fs]
          ELSE LET updated == updates @@ first.data
                   out == [lines EXCEPT ![1] = StringifySession(updated)]
               IN [ok |-> TRUE, session |-> updated,
                   files |-> [fs EXCEPT ![id] = Join(out) \o <<Chr(NL)>>]]

\* faulty variant: the file is written anew with the metadata record and the
\* new message, as writeFileSync in place of appendFileSync would
appendMessageOverwrite(fs, id, message, t) ==
  IF ~Exists(fs, id) THEN [ok |-> FALSE, files |-> fs]
  ELSE LET first == Split(Trim(fs[id]))[1]
           written == [fs EXCEPT ![id] = first \o <<Chr(NL)>>
                                          \o StringifyMessage(message) \o <<Chr(NL)>>]
       IN [ok |-> TRUE,
           files |-> updateSessionMetadata(written, id, [updatedAt |-> t]).files]

\* faulty variant: no existence check, appending creates the file
appendMessageUnchecked(fs, id, message, t) ==
  LET line == StringifyMessage(message) \o <<Chr(NL)>>
      written == IF Exists(fs, id) THEN [fs EXCEPT ![id] = @ \o line]
                 ELSE (id :> line) @@ fs
  IN [ok |-> TRUE,
      files |-> updateSessionMetadata(written, id, [updatedAt |-> t]).files]

\* faulty variant: a missing log is written anew
appendMessageRecreating(fs, id, message, t) ==
  LET line == StringifyMessage(message) \o <<Chr(NL)>>
      written == [i \in DOMAIN fs \cup {id} |->
                    IF i # id THEN fs[i]
                    ELSE IF Exists(fs, id) THEN fs[id] \o line ELSE line]
  IN [ok |-> TRUE,
      files |-> updateSessionMetadata(written, id, [updatedAt |-> t]).files]

\* appendMessage: [ok, files]; ok is FALSE where it throws "Session not found"
appendMessage(fs, id, message, t) ==
  IF ~Exists(fs, id) THEN [ok |-> FALSE, files |-> fs]
  ELSE LET written == [fs EXCEPT ![id] = @ \o StringifyMessage(message) \o <<Chr(NL)>>]
       IN [ok |-> TRUE,
           files |-> updateSessionMetadata(written, id, [updatedAt |-> t]).files]

\* faulty variant: the name that was passed is not used
createSessionUnnamed(id, name, t) ==
  LET session == [id |-> id, name |-> NewChat, updatedAt |-> t]
  IN [session |-> session, content |-> StringifySession(session) \o <<Chr(NL)>>]

\* createSession(name): the new log's content
createSession(id, name, t) ==
  LET session == [id |-> id,
                  name |-> IF ~name.given \/ name.text = << >> THEN NewChat ELSE name.text,
                  updatedAt |-> t]
  IN [session |-> session, content |-> StringifySession(session) \o <<Chr(NL)>>]

\* faulty variant: the file is not looked for, the call reports a deletion
deleteSessionBlind(fs, id) ==
  [ok |-> TRUE, files |-> [i \in DOMAIN fs \ {id} |-> fs[i]]]

\* deleteSession: [ok, files]
deleteSession(fs, id) ==
  IF ~Exists(fs, id) THEN [ok |-> FALSE, files |-> fs]
  ELSE [ok |-> TRUE, files |-> [i \in DOMAIN fs \ {id} |-> fs[i]]]

\* previewText = data.content?.slice(0, 100)
PreviewLimit == 100

Slice(text, n) == SubSeq(text, 1, IF Len(text) < n THEN Len(text) ELSE n)

\* previewText is undefined until a user message sets it
NoPreview == [given |-> FALSE, text |-> << >>]

\* the loop of listSessions over the lines of one file: Null where a line does
\* not parse (the file is skipped) or where no session record was read
RECURSIVE ListLines(_, _, _)
ListLines(lines, session, preview) ==
  IF lines = << >> THEN
    IF session = Null THEN Null
    ELSE [id |-> session.id, name |-> session.name, updatedAt |-> session.updatedAt,
          previewText |-> preview]
  ELSE LET p == JsonParse(Head(lines)) IN
    IF ~p.ok THEN Null
    ELSE IF p.type = "session" THEN
      IF SessionSchemaOk(p) THEN ListLines(Tail(lines), p.data, preview) ELSE Null
    ELSE IF p.type = "message" /\ (~preview.given \/ preview.text = << >>)
            /\ p.data.role = "user"
      THEN ListLines(Tail(lines), session,
                     [given |-> TRUE, text |-> Slice(p.data.content, PreviewLimit)])
      ELSE ListLines(Tail(lines), session, preview)

ListFile(content) == ListLines(FilterNonEmpty(Split(content)), Null, NoPreview)

\* faulty variant: the items stay in the order of the directory
Unsorted(items) == items

\* sessions.sort((a, b) => b.updatedAt - a.updatedAt): stable, descending
RECURSIVE InsertByUpdatedAt(_, _)
InsertByUpdatedAt(sorted, item) ==
  IF sorted = << >> THEN <<item>>
  ELSE IF Head(sorted).updatedAt >= item.updatedAt
       THEN <<Head(sorted)>> \o InsertByUpdatedAt(Tail(sorted), item)
       ELSE <<item>> \o sorted

RECURSIVE SortByUpdatedAt(_)
SortByUpdatedAt(items) ==
  IF items = << >> THEN << >>
  ELSE InsertByUpdatedAt(SortByUpdatedAt(SubSeq(items, 1, Len(items) - 1)),
                         items[Len(items)])

\* listSessions, for the order in which readdirSync returns the files
RECURSIVE ListEach(_, _)
ListEach(fs, order) ==
  IF order = << >> THEN << >>
  ELSE LET item == ListFile(fs[Head(order)])
       IN (IF item = Null THEN << >> ELSE <<item>>) \o ListEach(fs, Tail(order))

listSessions(fs, order) == SortByUpdatedAt(ListEach(fs, order))

\* the orders readdirSync can return the files in
ReaddirOrders(fs) ==
  {o \in [1 .. Cardinality(DOMAIN fs) -> DOMAIN fs] :
     \A i, j \in DOMAIN o : i # j => o[i] # o[j]}

\* generateId: an id that was never returned before
FreshIds(ids) == ids \ issued

\* the ids a caller can name: those issued, and one that never names a session
NoSuchId == "none"
KnownIds == issued \cup {NoSuchId}

----------------------------------------------------------------------------
(* Credentials: AES-256-GCM envelope in one file *)

\* StoredCredentials: anthropic is optional
NoCredentials == [has |-> FALSE, type |-> "", value |-> << >>, createdAt |-> 0]

Credentials ==
  {NoCredentials,
   [has |-> TRUE, type |-> "api_key", value |-> TrickyText, createdAt |-> 1]}

CredHead(type, t) == [k |-> "credentials", s |-> type, n |-> t, u |-> 0]

\* faulty variant: the value is written without escaping
StringifyCredentialsRaw(x) ==
  IF ~x.has THEN <<CredHead("", 0)>>
  ELSE <<CredHead(x.type, x.createdAt)>> \o JsonStringRaw(x.value)

\* JSON.stringify(credentials)
StringifyCredentials(x) ==
  IF ~x.has THEN <<CredHead("", 0)>>
  ELSE <<CredHead(x.type, x.createdAt)>> \o JsonString(x.value)

\* JSON.parse(decrypted.toString('utf8')): [ok, value]
ParseCredentials(toks) ==
  IF toks = << >> \/ Head(toks).k # "credentials" THEN [ok |-> FALSE]
  ELSE IF Head(toks).s = "" THEN
    IF Tail(toks) = << >> THEN [ok |-> TRUE, value |-> NoCredentials] ELSE [ok |-> FALSE]
  ELSE LET r == JsonUnstring(Tail(toks))
       IN IF ~r[1] THEN [ok |-> FALSE]
          ELSE [ok |-> TRUE,
                value |-> [has |-> TRUE, type |-> Head(toks).s, value |-> r[2],
                           createdAt |-> Head(toks).n]]

\* getMachineId: host name and user name do not change while the program runs
MachineId == "host-user-deskhand"

\* crypto.randomBytes: the values it can return, and the pairs of salt and
\* initialisation vector saveCredentials can draw
Randoms == {"r1", "r2"}
RandomPairs == {<<"r1", "r2">>, <<"r2", "r1">>}

\* deriveKey: PBKDF2 of the machine id and the salt; different inputs give
\* different keys
deriveKey(salt) == [machine |-> MachineId, salt |-> salt]

\* AES-GCM, taken as an ideal authenticated cipher.  The ciphertext is the
\* plaintext under the key stream of (key, iv); the tag binds key, iv and
\* ciphertext.
Cipher(key, iv, plaintext) == [key |-> key, iv |-> iv, text |-> plaintext]
AuthTag(key, iv, data) == [mac |-> <<key, iv, data>>]

\* decipher.update: the key stream of (key, iv) taken off the ciphertext
Decipher(key, iv, data) ==
  IF data.key = key /\ data.iv = iv THEN data.text ELSE <<Chr("?")>>

\* faulty variant: decipher.final does not compare the tag
DecryptUnverified(key, iv, authTag, data) ==
  [ok |-> TRUE, text |-> Decipher(key, iv, data)]

\* decipher.update and decipher.final: [ok, text]; final throws when the tag
\* does not fit
Decrypt(key, iv, authTag, data) ==
  IF authTag # AuthTag(key, iv, data) THEN [ok |-> FALSE]
  ELSE [ok |-> TRUE, text |-> Decipher(key, iv, data)]

\* the file saveCredentials writes: JSON.stringify(encryptedData)
Envelope(x, salt, iv) ==
  LET key == deriveKey(salt)
      data == Cipher(key, iv, StringifyCredentials(x))
  IN [kind |-> "json", fields |-> {"version", "salt", "iv", "authTag", "data"},
      salt |-> salt, iv |-> iv, authTag |-> AuthTag(key, iv, data), data |-> data]

NoFile == [kind |-> "absent"]

\* the try block of loadCredentials on the content it has read: [threw, value]
DecryptFile(content) ==
  IF content.kind # "json" THEN [threw |-> TRUE]
  ELSE IF ~({"salt", "iv", "authTag", "data"} \subseteq content.fields) THEN [threw |-> TRUE]
  ELSE LET key == deriveKey(content.salt)
           d == Decrypt(key, content.iv, content.authTag, content.data)
       IN IF ~d.ok THEN [threw |-> TRUE]
          ELSE IF ~ParseCredentials(d.text).ok THEN [threw |-> TRUE]
          ELSE [threw |-> FALSE, value |-> ParseCredentials(d.text).value]

\* loadCredentials on a file content: null where the file is absent and where
\* the try block throws
loadCredentials(content) ==
  IF content = NoFile THEN Null
  ELSE IF DecryptFile(content).threw THEN Null
  ELSE DecryptFile(content).value

\* the latest step was not the return of a load
NoLoad == [done |-> FALSE]

CredInit ==
  cred = [file |-> NoFile, pending |-> << >>, stored |-> Null, intact |-> TRUE,
          loaded |-> NoLoad]

----------------------------------------------------------------------------
(* Configuration: one JSON file and the defaultConfig object of the process *)

\* the values a configuration field can hold at run time
Str(v) == [t |-> "string", v |-> v]
Undefined == [t |-> "undefined", v |-> ""]
NotAString == [t |-> "number", v |-> "7"]

ConfigKeys == {"authType", "anthropicBaseUrl", "customModel", "theme"}

\* defaultConfig as the module is loaded
defaultConfig ==
  [authType |-> Undefined, anthropicBaseUrl |-> Undefined,
   customModel |-> Undefined, theme |-> Str("system")]

\* JSON.stringify(config): properties holding undefined are left out
StringifyConfig(config) ==
  [kind |-> "json",
   value |-> [k \in {key \in ConfigKeys : config[key] # Undefined} |-> config[k]]]

\* { ...base, ...over } where over comes from a file or a partial: the keys
\* of over win, the others keep the value of base
Spread(base, over) ==
  [k \in ConfigKeys |-> IF k \in DOMAIN over THEN over[k] ELSE base[k]]

\* AppConfigSchema accepts the object
SchemaOk(config) ==
  /\ config.authType \in {Undefined, Str("api_key"), Str("oauth_token")}
  /\ config.anthropicBaseUrl.t \in {"undefined", "string"}
  /\ config.customModel.t \in {"undefined", "string"}
  /\ config.theme \in {Undefined, Str("light"), Str("dark"), Str("system")}

\* AppConfigSchema.parse on an accepted object: theme defaults to 'system'
SchemaParse(config) ==
  [config EXCEPT !.theme = IF @ = Undefined THEN Str("system") ELSE @]

NoConfigFile == [kind |-> "absent"]

\* the try block of loadConfig reads and validates the file
ConfigFileParses(c) ==
  /\ c.file.kind = "json"
  /\ SchemaOk(Spread(c.defaultConfig, c.file.value))

\* loadConfig: the configuration it returns, and whether the object returned
\* is the defaultConfig object itself
loadConfig(c) ==
  IF c.file = NoConfigFile THEN [value |-> c.defaultConfig, shared |-> TRUE]
  ELSE IF ~ConfigFileParses(c) THEN [value |-> c.defaultConfig, shared |-> TRUE]
  ELSE [value |-> SchemaParse(Spread(c.defaultConfig, c.file.value)), shared |-> FALSE]

\* main/config.ts saveConfig after the caller has assigned fields to the
\* object loadConfig returned: the assignment lands in defaultConfig when that
\* is the object, and the object is written as it is
saveConfig(c, loaded, config) ==
  [c EXCEPT !.file = StringifyConfig(config),
            !.defaultConfig = IF loaded.shared THEN config ELSE @,
            !.written = TRUE]

\* main/config.ts updateConfig(key, value)
updateConfig(c, key, value) ==
  LET loaded == loadConfig(c)
  IN saveConfig(c, loaded, [loaded.value EXCEPT ![key] = value])

\* shared/config saveConfig(partial): [threw, c]
saveConfigShared(c, partial) ==
  LET merged == Spread(loadConfig(c).value, partial)
  IN IF ~SchemaOk(merged) THEN [threw |-> TRUE, c |-> c]
     ELSE [threw |-> FALSE,
           c |-> [c EXCEPT !.file = StringifyConfig(SchemaParse(merged)), !.written = TRUE]]

\* a handler's response { success, data?, error? }, and the state before any
\* request
Response(op, success, data) ==
  [op |-> op, success |-> success, data |-> data, error |-> ""]
Failure(op, error) == [op |-> op, success |-> FALSE, data |-> Null, error |-> error]
NoResponse == Response("none", TRUE, Null)

\* history: the session a request named, and whether the table held it then
Asked(sid, managed) == [sid |-> sid, managed |-> managed]
NoneAsked == Asked("none", FALSE)

ConfInit ==
  conf = [file |-> NoConfigFile, defaultConfig |-> defaultConfig, written |-> FALSE,
          got |-> NoResponse, asked |-> NoneAsked]

----------------------------------------------------------------------------
(* The store used as a library: StoreSpec *)

\* the messages a caller appends: user messages with and without content, an
\* assistant message and one of a role the relay does not mirror
Messages == {[role |-> "user", content |-> << >>],
             [role |-> "user", content |-> TrickyText],
             [role |-> "assistant", content |-> PlainText],
             [role |-> "tool", content |-> TrickyText]}

\* createSession(name?): the argument may be left out
NoName == [given |-> FALSE, text |-> << >>]
Names == {NoName} \cup {[given |-> TRUE, text |-> t] : t \in Texts}

StoreInit ==
  /\ files = << >>
  /\ now = 0
  /\ issued = {}
  /\ appended = << >>
  /\ lastAppend = "none"

NoEvent == [type |-> "none", payload |-> << >>, isIntermediate |-> FALSE]
NoInput == [op |-> "none", sid |-> "none", send |-> 0, event |-> NoEvent]

RelayIdle ==
  /\ heap = << >>
  /\ table = << >>
  /\ sends = << >>
  /\ sendCalls = 0
  /\ input = NoInput
  /\ emitted = << >>

Tick ==
  /\ now < MaxClock
  /\ now' = now + 1
  /\ UNCHANGED <<settingsVars, files, issued, appended, lastAppend, relayVars>>

AppendCount == LET RECURSIVE Sum(_)
                   Sum(S) == IF S = {} THEN 0
                             ELSE LET i == CHOOSE j \in S : TRUE
                                  IN Len(appended[i]) + Sum(S \ {i})
               IN Sum(DOMAIN appended)

CreateCore(name, ids) ==
  /\ FreshIds(ids) # {}
  /\ LET id == CHOOSE i \in FreshIds(ids) : TRUE
         c == createSession(id, name, now)
     IN /\ files' = (id :> c.content) @@ files
        /\ appended' = (id :> << >>) @@ appended
        /\ issued' = issued \cup {id}
  /\ UNCHANGED <<settingsVars, now, lastAppend>>

CreateSession(name) == CreateCore(name, StoreIds) /\ UNCHANGED relayVars

AppendMessage(id, m) ==
  /\ LET r == appendMessage(files, id, m, now)
     IN /\ files' = r.files
        /\ appended' = IF r.ok THEN [appended EXCEPT ![id] = Append(@, m)] ELSE appended
        /\ lastAppend' = IF r.ok THEN "ok" ELSE "not-found"
  /\ UNCHANGED <<settingsVars, now, issued, relayVars>>

UpdateCore(id, updates) ==
  /\ files' = updateSessionMetadata(files, id, updates).files
  /\ UNCHANGED <<settingsVars, now, issued, appended, lastAppend>>

UpdateSessionMetadata(id, updates) == UpdateCore(id, updates) /\ UNCHANGED relayVars

DeleteCore(id) ==
  /\ LET r == deleteSession(files, id)
     IN /\ files' = r.files
        /\ appended' = [i \in DOMAIN r.files \cap DOMAIN appended |-> appended[i]]
  /\ UNCHANGED <<settingsVars, now, issued, lastAppend>>

DeleteSession(id) == DeleteCore(id) /\ UNCHANGED relayVars

\* the partial updates a caller passes: a name, a time stamp, or both
Updates == {[updatedAt |-> now]}
             \cup {[name |-> n] : n \in Texts}
             \cup {[name |-> n, updatedAt |-> now] : n \in Texts}

StoreNext ==
  \/ Tick
  \/ \E name \in Names : CreateSession(name)
  \/ \E id \in KnownIds, m \in Messages : AppendCount < MaxAppends /\ AppendMessage(id, m)
  \/ \E id \in KnownIds, u \in Updates : UpdateSessionMetadata(id, u)
  \/ \E id \in KnownIds : DeleteSession(id)

\* the store alone: the relay stays as it starts
Init == StoreInit /\ RelayIdle /\ CredInit /\ ConfInit

StoreSpec == Init /\ [][StoreNext]_vars

----------------------------------------------------------------------------
(* Listing the sessions directory: ListSpec *)

\* a user message longer than the preview
LongText == [i \in 1 .. PreviewLimit + 1 |-> IF i = PreviewLimit + 1 THEN "z" ELSE "a"]

ListMessages == {[role |-> "user", content |-> << >>],
                 [role |-> "user", content |-> LongText],
                 [role |-> "assistant", content |-> TrickyText]}

\* a .jsonl file of the directory that the store did not write
JunkFile == "junk"

JunkSession == StringifySession([id |-> JunkFile, name |-> PlainText, updatedAt |-> 1])

\* what such a file can hold: a line that is no JSON; a metadata record followed
\* by a line that is no JSON; a message record and no metadata record; a
\* metadata record followed by a message record of an unknown role
Garbage ==
  {<<Chr("x"), Chr(NL)>>,
   JunkSession \o <<Chr(NL), Chr("x"), Chr(NL)>>,
   StringifyMessage([role |-> "user", content |-> PlainText]) \o <<Chr(NL)>>,
   JunkSession \o <<Chr(NL)>>
     \o StringifyMessage([role |-> "bogus", content |-> PlainText]) \o <<Chr(NL)>>}

\* the file appears in the directory, or its content is replaced
Corrupt(content) ==
  /\ files' = (JunkFile :> content) @@ files
  /\ UNCHANGED <<settingsVars, now, issued, appended, lastAppend, relayVars>>

ListNext ==
  \/ Tick
  \/ CreateSession(NoName)
  \/ \E id \in issued, m \in ListMessages : AppendCount < MaxAppends /\ AppendMessage(id, m)
  \/ \E content \in Garbage : JunkFile \notin DOMAIN files /\ Corrupt(content)

\* The listing reads the directory and changes nothing: ListSpec runs the store
\* next to a file it did not write, and the properties apply listSessions to
\* every state.
ListSpec == Init /\ [][ListNext]_vars

----------------------------------------------------------------------------
(* Credentials: CredSpec *)

Without(seq, i) == SubSeq(seq, 1, i - 1) \o SubSeq(seq, i + 1, Len(seq))

\* saveCredentials up to its await of deriveKey
SaveCredentialsCall(x, salt, iv) ==
  /\ Len(cred.pending) < MaxPending
  /\ cred' = [cred EXCEPT !.pending = Append(@, [op |-> "save", x |-> x, salt |-> salt, iv |-> iv]),
                          !.loaded = NoLoad]
  /\ UNCHANGED <<conf, storeVars, relayVars>>

\* saveCredentials once the key is derived: encrypt and write the file
SaveCredentialsDone(i) ==
  /\ i \in DOMAIN cred.pending
  /\ cred.pending[i].op = "save"
  /\ LET t == cred.pending[i]
     IN cred' = [cred EXCEPT !.file = Envelope(t.x, t.salt, t.iv),
                             !.stored = t.x,
                             !.intact = TRUE,
                             !.pending = Without(@, i),
                             !.loaded = NoLoad]
  /\ UNCHANGED <<conf, storeVars, relayVars>>

\* loadCredentials up to its await of deriveKey; without a file it returns null
LoadCredentialsCall ==
  /\ Len(cred.pending) < MaxPending
  /\ IF cred.file = NoFile
     THEN cred' = [cred EXCEPT !.loaded = [done |-> TRUE, result |-> Null, absent |-> TRUE,
                                           stored |-> cred.stored, intact |-> cred.intact]]
     ELSE cred' = [cred EXCEPT !.pending =
                     Append(@, [op |-> "load", content |-> cred.file,
                                stored |-> cred.stored, intact |-> cred.intact]),
                               !.loaded = NoLoad]
  /\ UNCHANGED <<conf, storeVars, relayVars>>

\* loadCredentials once the key is derived: decrypt what was read and return
LoadCredentialsDone(i) ==
  /\ i \in DOMAIN cred.pending
  /\ cred.pending[i].op = "load"
  /\ LET t == cred.pending[i]
     IN cred' = [cred EXCEPT !.loaded = [done |-> TRUE, result |-> loadCredentials(t.content),
                                         absent |-> FALSE,
                                         stored |-> t.stored, intact |-> t.intact],
                             !.pending = Without(@, i)]
  /\ UNCHANGED <<conf, storeVars, relayVars>>

\* deleteCredentials
DeleteCredentials ==
  /\ cred' = [cred EXCEPT !.file = NoFile, !.stored = Null, !.intact = TRUE,
                          !.loaded = NoLoad]
  /\ UNCHANGED <<conf, storeVars, relayVars>>

\* a plaintext with its first byte changed
TamperedText(text) ==
  [text EXCEPT ![1] = CredHead(IF @.s = "api_key" THEN "oauth_token" ELSE "api_key", @.n)]

\* what a change to the stored file can leave: changed ciphertext, changed tag,
\* changed salt, a missing field, or a file that is no JSON
Tampered(f) ==
  {[f EXCEPT !.data.text = TamperedText(@)],
   [f EXCEPT !.authTag = AuthTag(f.data.key, f.iv, [f.data EXCEPT !.text = TamperedText(@)])],
   [f EXCEPT !.salt = CHOOSE r \in Randoms : r # @],
   [f EXCEPT !.fields = @ \ {"authTag"}],
   [kind |-> "garbage"]}

\* the file is changed outside the program, once per envelope
TamperCredentials ==
  /\ cred.file.kind = "json" /\ cred.intact
  /\ \E f \in Tampered(cred.file) : cred' = [cred EXCEPT !.file = f, !.intact = FALSE, !.loaded = NoLoad]
  /\ UNCHANGED <<conf, storeVars, relayVars>>

CredNext ==
  \/ \E x \in Credentials, r \in RandomPairs : SaveCredentialsCall(x, r[1], r[2])
  \/ \E i \in 1 .. MaxPending : SaveCredentialsDone(i)
  \/ LoadCredentialsCall
  \/ \E i \in 1 .. MaxPending : LoadCredentialsDone(i)
  \/ DeleteCredentials
  \/ TamperCredentials

CredSpec == Init /\ [][CredNext]_vars

----------------------------------------------------------------------------
(* The configuration handlers *)

\* the requests the renderer sends: set-config passes its value on unchecked
SetConfigRequests ==
  {[key |-> "theme", value |-> Str("dark")],
   [key |-> "theme", value |-> NotAString],
   [key |-> "customModel", value |-> Str("m")]}
Themes == {"light", "system"}
BaseUrls == {"", "u"}
Partials ==
  {[k \in {"theme"} |-> Str("dark")],
   [k \in {"customModel"} |-> NotAString]}

\* CONFIG_GET
GetConfig ==
  /\ conf' = [conf EXCEPT !.got = Response("get-config", TRUE, loadConfig(conf).value)]
  /\ UNCHANGED <<cred, storeVars, relayVars>>

\* CONFIG_SET
SetConfig(request) ==
  /\ conf' = [updateConfig(conf, request.key, request.value)
                EXCEPT !.got = Response("set-config", TRUE, Null)]
  /\ UNCHANGED <<cred, storeVars, relayVars>>

\* THEME_SET
SetTheme(theme) ==
  /\ conf' = [updateConfig(conf, "theme", Str(theme))
                EXCEPT !.got = Response("set-theme", TRUE, Null)]
  /\ UNCHANGED <<cred, storeVars, relayVars>>

\* ONBOARDING_SAVE_CONFIG up to the await inside saveCredentials
SaveOnboardingConfigCall(authType, baseUrl, salt, iv) ==
  /\ Len(cred.pending) < MaxPending
  /\ cred' = [cred EXCEPT !.pending =
                Append(@, [op |-> "onboard",
                           x |-> [has |-> TRUE, type |-> authType, value |-> PlainText,
                                  createdAt |-> now],
                           salt |-> salt, iv |-> iv, baseUrl |-> baseUrl]),
                          !.loaded = NoLoad]
  /\ UNCHANGED <<conf, storeVars, relayVars>>

\* ONBOARDING_SAVE_CONFIG once the key is derived: the credentials file is
\* written, then the configuration is loaded, changed and saved
SaveOnboardingConfigDone(i) ==
  /\ i \in DOMAIN cred.pending
  /\ cred.pending[i].op = "onboard"
  /\ LET t == cred.pending[i]
         loaded == loadConfig(conf)
         typed == [loaded.value EXCEPT !.authType = Str(t.x.type)]
         config == IF t.baseUrl # "" THEN [typed EXCEPT !.anthropicBaseUrl = Str(t.baseUrl)]
                   ELSE typed
     IN /\ cred' = [cred EXCEPT !.file = Envelope(t.x, t.salt, t.iv),
                                !.stored = t.x,
                                !.intact = TRUE,
                                !.pending = Without(@, i),
                                !.loaded = NoLoad]
        /\ conf' = [saveConfig(conf, loaded, config)
                      EXCEPT !.got = Response("save-onboarding-config", TRUE, Null)]
  /\ UNCHANGED <<storeVars, relayVars>>

\* shared/config saveConfig(partial)
SaveConfig(partial) ==
  /\ LET r == saveConfigShared(conf, partial)
     IN conf' = [r.c EXCEPT !.got = Response("saveConfig", ~r.threw, Null)]
  /\ UNCHANGED <<cred, storeVars, relayVars>>

\* the config file is removed outside the program
ConfigFileRemoved ==
  /\ conf.file # NoConfigFile
  /\ conf' = [conf EXCEPT !.file = NoConfigFile, !.written = FALSE, !.got = NoResponse]
  /\ UNCHANGED <<cred, storeVars, relayVars>>

\* the config file is left with a content that is no JSON
ConfigFileGarbled ==
  /\ conf.file.kind = "json"
  /\ conf' = [conf EXCEPT !.file = [kind |-> "garbage"], !.written = FALSE,
                          !.got = NoResponse]
  /\ UNCHANGED <<cred, storeVars, relayVars>>

ConfigNext ==
  \/ GetConfig
  \/ \E request \in SetConfigRequests : SetConfig(request)
  \/ \E theme \in Themes : SetTheme(theme)
  \/ \E authType \in {"api_key"}, baseUrl \in BaseUrls :
       SaveOnboardingConfigCall(authType, baseUrl, "r1", "r2")
  \/ \E i \in 1 .. MaxPending : SaveOnboardingConfigDone(i)
  \/ \E partial \in Partials : SaveConfig(partial)
  \/ ConfigFileRemoved
  \/ ConfigFileGarbled

ConfigSpec == Init /\ [][ConfigNext]_vars

----------------------------------------------------------------------------
(* Agent relay: managed sessions *)

\* what the renderer sends, and what the agent streams: its k-th text
UserText  == PlainText
Digits    == <<"0", "1", "2", "3", "4", "5", "6", "7", "8", "9">>
AgentText(k) == Append(TrickyText, Digits[k + 1])
DeltaText == <<"H">>

AlreadyProcessingError == <<"Already processing a message">>
NotFoundError == <<"Session not found">>

AgentEv(type, payload, inter) ==
  [type |-> type, payload |-> payload, isIntermediate |-> inter]

\* faulty variant: every event is labelled with the same session
SessionEvUnlabelled(type, sid, payload, inter) ==
  [type |-> type, sessionId |-> "s1", payload |-> payload, isIntermediate |-> inter]

SessionEv(type, sid, payload, inter) ==
  [type |-> type, sessionId |-> sid, payload |-> payload, isIntermediate |-> inter]

\* the messages the relay mirrors: role and content of user and assistant messages
Mirror(messages) ==
  SelectSeq(messages, LAMBDA m : m.role = "user" \/ m.role = "assistant")

NewManaged(sid, messages) ==
  [id |-> sid, messages |-> messages, isProcessing |-> FALSE,
   abortController |-> "null", streamingText |-> << >>]

\* faulty variant: a new record starts with an empty mirror, the log is not read
getOrCreateManagedSessionEmpty(hp, tb, fs, sid) ==
  IF sid \in DOMAIN tb THEN [heap |-> hp, table |-> tb, rec |-> tb[sid]]
  ELSE [heap |-> Append(hp, NewManaged(sid, << >>)),
        table |-> (sid :> (Len(hp) + 1)) @@ tb,
        rec |-> Len(hp) + 1]

\* getOrCreateManagedSession: [heap, table, rec]
getOrCreateManagedSession(hp, tb, fs, sid) ==
  IF sid \in DOMAIN tb THEN [heap |-> hp, table |-> tb, rec |-> tb[sid]]
  ELSE LET loaded == loadSession(fs, sid)
           messages == IF loaded = Null THEN << >> ELSE Mirror(loaded.messages)
       IN [heap |-> Append(hp, NewManaged(sid, messages)),
           table |-> (sid :> (Len(hp) + 1)) @@ tb,
           rec |-> Len(hp) + 1]

\* faulty variant: the guard lets every send through
NeverProcessing(m) == FALSE

\* the guard of handleSendMessage
AlreadyProcessing(m) == m.isProcessing

\* faulty variant: the send creates no new handle
BeginWithoutHandle(m) == [m EXCEPT !.isProcessing = TRUE, !.streamingText = << >>]

\* the head of handleSendMessage, before the user message is persisted
Begin(m) ==
  [m EXCEPT !.isProcessing = TRUE, !.streamingText = << >>, !.abortController = "open"]

\* faulty variant: the finally block clears the flag and nothing else
FinallyFlagOnly(m) == [m EXCEPT !.isProcessing = FALSE]

\* the finally block of handleSendMessage
Finally(m) ==
  [m EXCEPT !.isProcessing = FALSE, !.abortController = "null", !.streamingText = << >>]

\* faulty variant: the loop never looks at the signal
NeverAborted(m) == FALSE

\* the abort check at the head of the relay loop
Aborted(m) == m.abortController = "aborted"

\* faulty variant: every text_complete is persisted
PersistsEvery(e) == TRUE

\* faulty variant: no text_complete is persisted
PersistsNone(e) == FALSE

\* text_complete: only non-intermediate text is persisted
Persists(e) == ~e.isIntermediate

\* faulty variant: the info event goes out as an error event
TranslateInfoAsError(e, sid) ==
  SessionEv(IF e.type = "info" THEN "error" ELSE e.type, sid, e.payload,
            e.type = "text_complete" /\ e.isIntermediate)

\* the switch of the relay loop: AgentEvent to SessionEvent
Translate(e, sid) ==
  CASE e.type = "turn_start"    -> SessionEv("turn_start", sid, e.payload, FALSE)
    [] e.type = "turn_end"      -> SessionEv("turn_end", sid, e.payload, FALSE)
    [] e.type = "text_delta"    -> SessionEv("text_delta", sid, e.payload, FALSE)
    [] e.type = "text_complete" -> SessionEv("text_complete", sid, e.payload, e.isIntermediate)
    [] e.type = "tool_start"    -> SessionEv("tool_start", sid, e.payload, FALSE)
    [] e.type = "tool_result"   -> SessionEv("tool_result", sid, e.payload, FALSE)
    [] e.type = "error"         -> SessionEv("error", sid, e.payload, FALSE)
    [] e.type = "complete"      -> SessionEv("complete", sid, e.payload, FALSE)
    [] e.type = "info"          -> SessionEv("info", sid, e.payload, FALSE)

Quiet == input' = NoInput /\ emitted' = << >>

Running(s) == s.pc \in {"await", "break", "throw"}

\* faulty variant of NewSend, defined below: every send goes on to the relay
\* loop, whether its user message was persisted or not
NewSendAwaiting(sid, rec, pc, start, closing) ==
  [sid |-> sid, rec |-> rec, pc |-> "await",
   phase |-> "run", n |-> 0, hung |-> FALSE,
   start |-> start, expect |-> << >>, cancelAsked |-> FALSE, closing |-> closing]

\* One invocation of handleSendMessage past its guard.  pc: where the coroutine
\* stands; phase, n, hung: the state of the agent's generator; start, expect,
\* cancelAsked: history kept while the send runs (the length of the log when it
\* was accepted, the texts of the non-intermediate text_complete events it has
\* received, whether cancel-processing was requested before its first event);
\* closing: the session events of its last step.
NewSend(sid, rec, pc, start, closing) ==
  [sid |-> sid, rec |-> rec, pc |-> pc,
   phase |-> "run", n |-> 0, hung |-> FALSE,
   start |-> start, expect |-> << >>, cancelAsked |-> FALSE, closing |-> closing]

\* a send that is over keeps only how it ended
Ended(s, pc, closing) == NewSend(s.sid, s.rec, pc, 0, closing)

\* number of messages in a log, 0 when there is none
LogLength(fs, sid) ==
  LET loaded == loadSession(fs, sid)
  IN IF loaded = Null THEN 0 ELSE Len(loaded.messages)

----------------------------------------------------------------------------
(* Requests of the renderer *)

SessionCreate(name) ==
  /\ CreateCore(name, SessionIds)
  /\ Quiet
  /\ UNCHANGED <<heap, table, sends, sendCalls>>

SessionRename(sid, name) ==
  /\ UpdateCore(sid, [name |-> name, updatedAt |-> now])
  /\ Quiet
  /\ UNCHANGED <<heap, table, sends, sendCalls>>

SessionDelete(sid) ==
  /\ DeleteCore(sid)
  /\ table' = IF deleteSession(files, sid).ok
              THEN [i \in DOMAIN table \ {sid} |-> table[i]]
              ELSE table
  /\ Quiet
  /\ UNCHANGED <<heap, sends, sendCalls>>

\* handleSendMessage up to its first await, and the catch of the send-message
\* handler when the promise rejects there
SendMessage(sid, text) ==
  /\ sendCalls < MaxSends
  /\ sendCalls' = sendCalls + 1
  /\ input' = [NoInput EXCEPT !.op = "send", !.sid = sid]
  /\ UNCHANGED <<settingsVars, now, issued>>
  /\ LET g == getOrCreateManagedSession(heap, table, files, sid)
         m == g.heap[g.rec]
         userMsg == [role |-> "user", content |-> text]
         r == appendMessage(files, sid, userMsg, now)
     IN /\ table' = g.table
        /\ IF AlreadyProcessing(m) THEN
             /\ emitted' = <<SessionEv("error", sid, AlreadyProcessingError, FALSE)>>
             /\ heap' = g.heap
             /\ UNCHANGED <<files, appended, lastAppend, sends>>
           ELSE IF ~r.ok THEN
             /\ heap' = [g.heap EXCEPT ![g.rec] = Begin(m)]
             /\ emitted' = <<SessionEv("error", sid, NotFoundError, FALSE)>>
             /\ sends' = Append(sends, NewSend(sid, g.rec, "rejected", 0, <<"error">>))
             /\ lastAppend' = "not-found"
             /\ UNCHANGED <<files, appended>>
           ELSE
             /\ files' = r.files
             /\ appended' = [i \in DOMAIN appended |->
                               IF i = sid THEN Append(appended[i], userMsg) ELSE appended[i]]
             /\ lastAppend' = "ok"
             /\ heap' = [g.heap EXCEPT ![g.rec] =
                           [Begin(m) EXCEPT !.messages = Append(@, userMsg)]]
             /\ emitted' = <<SessionEv("user_message", sid, text, FALSE)>>
             /\ sends' = Append(sends,
                           NewSend(sid, g.rec, "await", LogLength(files, sid), << >>))

\* the cancel-processing handler
CancelProcessing(sid) ==
  /\ heap' = IF sid \in DOMAIN table /\ heap[table[sid]].abortController # "null"
             THEN [heap EXCEPT ![table[sid]].abortController = "aborted"]
             ELSE heap
  /\ sends' = [i \in DOMAIN sends |->
                 IF sends[i].sid = sid /\ sends[i].pc = "await" /\ sends[i].n = 0
                    /\ sends[i].phase = "run"
                 THEN [sends[i] EXCEPT !.cancelAsked = TRUE]
                 ELSE sends[i]]
  /\ Quiet
  /\ UNCHANGED <<settingsVars, storeVars, table, sendCalls>>

----------------------------------------------------------------------------
(* The agent's stream and the relay loop *)

\* DeskhandAgent.chat while it consumes the SDK's messages; k numbers the final
\* texts, so that their order shows in the log
BodyEvents(k) ==
  {AgentEv("turn_start", << >>, FALSE),
   AgentEv("text_delta", DeltaText, FALSE),
   AgentEv("text_complete", AgentText(k), TRUE),
   AgentEv("text_complete", AgentText(k), FALSE),
   AgentEv("tool_start", << >>, FALSE),
   AgentEv("tool_result", << >>, FALSE),
   AgentEv("turn_end", << >>, FALSE)}

\* DeskhandAgent.chat once the SDK's stream is over or has thrown: the pending
\* text, or the error or the stop notice, and then complete
ClosingEvents(k) ==
  {AgentEv("text_complete", AgentText(k), FALSE),
   AgentEv("error", <<"agent error">>, FALSE),
   AgentEv("info", <<"Chat stopped by user">>, FALSE)}

CompleteEvent == AgentEv("complete", << >>, FALSE)

\* the events the generator of send s can yield next, each with the phase it leaves
NextYields(s) ==
  IF s.phase = "run" THEN
    (IF s.n < MaxStream THEN {<<e, "run">> : e \in BodyEvents(Len(s.expect))} ELSE {})
      \cup {<<e, "fin">> : e \in ClosingEvents(Len(s.expect))}
      \cup {<<CompleteEvent, "end">>}
  ELSE IF s.phase = "fin" THEN {<<CompleteEvent, "end">>}
  ELSE {}

\* one pass of the relay loop: the event y[1] arrives for send i
AgentYield(i) ==
  /\ i \in DOMAIN sends
  /\ sends[i].pc = "await" /\ ~sends[i].hung
  /\ \E y \in NextYields(sends[i]) :
      LET s == sends[i]
          e == y[1]
          m == heap[s.rec]
          assistantMsg == [role |-> "assistant", content |-> e.payload]
          r == appendMessage(files, s.sid, assistantMsg, now)
          s1 == [s EXCEPT !.phase = y[2],
                          !.n = IF y[2] = "run" THEN @ + 1 ELSE @,
                          !.expect = IF e.type = "text_complete" /\ ~e.isIntermediate
                                     THEN Append(@, e.payload) ELSE @]
      IN /\ input' = [NoInput EXCEPT !.op = "agent", !.sid = s.sid, !.send = i, !.event = e]
         /\ IF Aborted(m) THEN
              /\ emitted' = <<SessionEv("interrupted", s.sid, << >>, FALSE)>>
              /\ sends' = [sends EXCEPT ![i] = [s1 EXCEPT !.pc = "break"]]
              /\ UNCHANGED <<heap, files, appended, lastAppend>>
            ELSE IF e.type = "text_delta" THEN
              /\ heap' = [heap EXCEPT ![s.rec].streamingText = @ \o e.payload]
              /\ emitted' = <<Translate(e, s.sid)>>
              /\ sends' = [sends EXCEPT ![i] = s1]
              /\ UNCHANGED <<files, appended, lastAppend>>
            ELSE IF e.type = "text_complete" /\ Persists(e) THEN
              IF r.ok THEN
                /\ files' = r.files
                /\ appended' = [j \in DOMAIN appended |->
                                  IF j = s.sid THEN Append(appended[j], assistantMsg)
                                  ELSE appended[j]]
                /\ lastAppend' = "ok"
                /\ heap' = [heap EXCEPT ![s.rec].messages = Append(@, assistantMsg)]
                /\ emitted' = <<Translate(e, s.sid)>>
                /\ sends' = [sends EXCEPT ![i] = s1]
              ELSE
                /\ lastAppend' = "not-found"
                /\ emitted' = << >>
                /\ sends' = [sends EXCEPT ![i] = [s1 EXCEPT !.pc = "throw"]]
                /\ UNCHANGED <<heap, files, appended>>
            ELSE
              /\ emitted' = <<Translate(e, s.sid)>>
              /\ sends' = [sends EXCEPT ![i] = s1]
              /\ UNCHANGED <<heap, files, appended, lastAppend>>
  /\ UNCHANGED <<settingsVars, now, issued, table, sendCalls>>

\* the stream is exhausted: the loop ends and the finally block runs
AgentEnd(i) ==
  /\ i \in DOMAIN sends
  /\ sends[i].pc = "await" /\ sends[i].phase = "end"
  /\ heap' = [heap EXCEPT ![sends[i].rec] = Finally(@)]
  /\ sends' = [sends EXCEPT ![i] = Ended(@, "exhausted", << >>)]
  /\ Quiet
  /\ UNCHANGED <<settingsVars, storeVars, table, sendCalls>>

\* the iterator's return() has resolved after a break or a throw in the loop:
\* the catch block (after a throw) and the finally block run
Closed(i) ==
  /\ i \in DOMAIN sends
  /\ sends[i].pc \in {"break", "throw"}
  /\ heap' = [heap EXCEPT ![sends[i].rec] = Finally(@)]
  /\ IF sends[i].pc = "break" THEN
       /\ emitted' = << >>
       /\ sends' = [sends EXCEPT ![i] = Ended(@, "interrupted", <<"interrupted">>)]
     ELSE
       /\ emitted' = <<SessionEv("error", sends[i].sid, NotFoundError, FALSE),
                       SessionEv("complete", sends[i].sid, << >>, FALSE)>>
       /\ sends' = [sends EXCEPT ![i] = Ended(@, "errored", <<"error", "complete">>)]
  /\ input' = NoInput
  /\ UNCHANGED <<settingsVars, storeVars, table, sendCalls>>

\* the SDK's call never answers: no further event arrives
AgentHang(i) ==
  /\ i \in DOMAIN sends
  /\ sends[i].pc = "await" /\ sends[i].phase = "run" /\ ~sends[i].hung
  /\ sends' = [sends EXCEPT ![i].hung = TRUE]
  /\ Quiet
  /\ UNCHANGED <<settingsVars, storeVars, heap, table, sendCalls>>

SendIndexes == 1 .. MaxSends

\* The session handlers with their answers.  got is the answer of the latest
\* list, load, delete or rename request.
Answer(response, sid) ==
  /\ conf' = [conf EXCEPT !.got = response, !.asked = Asked(sid, sid \in DOMAIN table)]
  /\ UNCHANGED cred

NotFound == "Session not found"

\* SESSION_LIST
SessionListRequest ==
  /\ \E order \in ReaddirOrders(files) :
       Answer(Response("list-sessions", TRUE, [sessions |-> listSessions(files, order)]),
              NoSuchId)
  /\ Quiet
  /\ UNCHANGED <<storeVars, heap, table, sends, sendCalls>>

\* SESSION_LOAD
SessionLoadRequest(sid) ==
  /\ LET session == loadSession(files, sid)
     IN Answer(IF session = Null THEN Failure("load-session", NotFound)
               ELSE Response("load-session", TRUE, session), sid)
  /\ Quiet
  /\ UNCHANGED <<storeVars, heap, table, sends, sendCalls>>

\* SESSION_DELETE
SessionDeleteRequest(sid) ==
  /\ LET r == deleteSession(files, sid)
     IN /\ files' = r.files
        /\ appended' = [i \in DOMAIN r.files \cap DOMAIN appended |-> appended[i]]
        /\ table' = IF r.ok THEN [i \in DOMAIN table \ {sid} |-> table[i]] ELSE table
        /\ Answer(IF r.ok THEN Response("delete-session", TRUE, Null)
                  ELSE Failure("delete-session", NotFound), sid)
  /\ Quiet
  /\ UNCHANGED <<now, issued, lastAppend, heap, sends, sendCalls>>

\* SESSION_RENAME
SessionRenameRequest(sid, name) ==
  /\ LET r == updateSessionMetadata(files, sid, [name |-> name, updatedAt |-> now])
     IN /\ files' = r.files
        /\ Answer(IF r.ok THEN Response("rename-session", TRUE, r.session)
                  ELSE Failure("rename-session", NotFound), sid)
  /\ Quiet
  /\ UNCHANGED <<now, issued, appended, lastAppend, heap, table, sends, sendCalls>>

\* the first send-message request of the process
FirstSendMessage(sid, text) == sendCalls = 0 /\ SendMessage(sid, text)

Next ==
  \/ \E name \in Names : SessionCreate(name)
  \/ \E sid \in KnownIds : SessionRename(sid, TrickyText)
  \/ \E sid \in KnownIds : SessionDelete(sid)
  \/ \E sid \in KnownIds : SendMessage(sid, UserText)
  \/ \E sid \in KnownIds : CancelProcessing(sid)
  \/ \E i \in SendIndexes : AgentYield(i)
  \/ \E i \in SendIndexes : AgentEnd(i)
  \/ \E i \in SendIndexes : Closed(i)

\* The relay never reads the clock but to stamp updatedAt, and a send ends the
\* same whether the agent is slow or silent: Spec leaves Tick and AgentHang out.
Spec == Init /\ [][Next]_vars

\* The event loop runs every resolved continuation; the agent answers unless
\* its call hangs; requests of the renderer are under no obligation.
HangNext == Next \/ \E i \in SendIndexes : AgentHang(i)

FairSpec ==
  /\ Init
  /\ [][HangNext]_vars
  /\ \A i \in SendIndexes :
       /\ WF_vars(AgentYield(i))
       /\ WF_vars(AgentEnd(i))
       /\ WF_vars(Closed(i))

\* The main process ends and is started again: the logs stay, the table of
\* managed sessions is new and empty, and no relay task is left.
Restart ==
  /\ heap' = << >>
  /\ table' = << >>
  /\ sends' = << >>
  /\ Quiet
  /\ UNCHANGED <<settingsVars, storeVars, sendCalls>>

\* the relay over several lifetimes of the process
LifeNext == Next \/ Restart

LifeSpec == Init /\ [][LifeNext]_vars

\* create-session where two sessions can exist side by side
SessionCreatePair ==
  /\ CreateCore(NoName, StoreIds)
  /\ Quiet
  /\ UNCHANGED <<heap, table, sends, sendCalls>>

\* a send-message request for a session no send was accepted on before
SendMessageOnce(sid, text) ==
  /\ \A i \in DOMAIN sends : sends[i].sid # sid
  /\ SendMessage(sid, text)

\* the relay with two sessions, each taking one send
PairNext ==
  \/ SessionCreatePair
  \/ \E sid \in issued : SendMessageOnce(sid, UserText)
  \/ \E sid \in issued : CancelProcessing(sid)
  \/ \E i \in SendIndexes : AgentYield(i)
  \/ \E i \in SendIndexes : AgentEnd(i)
  \/ \E i \in SendIndexes : Closed(i)

PairSpec == Init /\ [][PairNext]_vars

\* The session handlers with their answers, around one send that puts an
\* entry into the table.
RequestNext ==
  \/ \E name \in Names : SessionCreate(name)
  \/ SessionListRequest
  \/ \E sid \in KnownIds : SessionLoadRequest(sid)
  \/ \E sid \in KnownIds : SessionDeleteRequest(sid)
  \/ \E sid \in KnownIds : SessionRenameRequest(sid, TrickyText)
  \/ \E sid \in KnownIds : FirstSendMessage(sid, UserText)
  \/ \E sid \in KnownIds : CancelProcessing(sid)
  \/ \E i \in SendIndexes : AgentYield(i)
  \/ \E i \in SendIndexes : AgentEnd(i)
  \/ \E i \in SendIndexes : Closed(i)

RequestSpec == Init /\ [][RequestNext]_vars

----------------------------------------------------------------------------
(* Properties of the relay *)

Interrupted(sid) == SessionEv("interrupted", sid, << >>, FALSE)

\* no later send uses the managed session record of send i
LastOnRecord(i) == \A j \in DOMAIN sends : j > i => sends[j].rec # sends[i].rec

\* a managed session record as the finally block leaves it
Idle(m) == ~m.isProcessing /\ m.abortController = "null" /\ m.streamingText = << >>

\* the step is one pass of the relay loop of send i
Received(i) == input'.op = "agent" /\ input'.send = i

\* C1: every send that sets the processing flag leaves Processing again: however
\* a send has ended, the record's flag is false, its handle is cleared and its
\* buffer is empty, and the flag is never set while no relay task runs on the
\* record.
C1_EverySendLeavesProcessing ==
  /\ \A i \in DOMAIN sends :
       (~Running(sends[i]) /\ LastOnRecord(i)) => Idle(heap[sends[i].rec])
  /\ \A r \in DOMAIN heap :
       heap[r].isProcessing => \E i \in DOMAIN sends : sends[i].rec = r /\ Running(sends[i])

\* C2: a sendMessage on a session whose processing flag is set emits exactly
\* one error event 'Already processing a message' for that session and changes
\* nothing else: log, mirror, flag, handle, buffer and the running sends stay.
C2_BusySendChangesNothing ==
  [][\A sid \in KnownIds :
       (/\ sendCalls' = sendCalls + 1
        /\ input'.sid = sid
        /\ sid \in DOMAIN table
        /\ heap[table[sid]].isProcessing)
         => /\ emitted' = <<SessionEv("error", sid, AlreadyProcessingError, FALSE)>>
            /\ UNCHANGED <<files, heap, table, sends>>]_vars

\* a send was refused while the first one had text in its buffer
C2_Witness ==
  /\ input.op = "send"
  /\ emitted = <<SessionEv("error", input.sid, AlreadyProcessingError, FALSE)>>
  /\ \E i \in DOMAIN sends :
       /\ sends[i].sid = input.sid /\ sends[i].pc = "await"
       /\ heap[sends[i].rec].streamingText # << >>
       /\ heap[sends[i].rec].abortController = "open"

\* the messages an accepted send has added to the log so far
Gained(s) ==
  <<[role |-> "user", content |-> UserText]>>
    \o [k \in 1 .. Len(s.expect) |-> [role |-> "assistant", content |-> s.expect[k]]]

C4_CancelBeforeFirstEvent ==
  \A i \in DOMAIN sends :
    (sends[i].cancelAsked /\ input.op = "agent" /\ input.send = i)
      => /\ emitted = <<Interrupted(sends[i].sid)>>
         /\ sends[i].pc = "break"
         /\ LogLength(files, sends[i].sid) <= sends[i].start + 1

\* C5: once the handle of a send is signalled, the next agent event received
\* for it is not translated or persisted: the relay emits one interrupted
\* event, leaves log and record as they are and stops consuming.
C5_AbortedSendOnlyInterrupts ==
  [][\A i \in DOMAIN sends :
       /\ (heap[sends[i].rec].abortController = "aborted" /\ Received(i))
            => /\ emitted' = <<Interrupted(sends[i].sid)>>
               /\ UNCHANGED <<files, heap>>
               /\ sends'[i].pc = "break"
       /\ sends[i].pc # "await" => ~Received(i)]_vars

\* a send was interrupted after one of its texts had been persisted
C5_Witness ==
  /\ input.op = "agent"
  /\ emitted = <<Interrupted(input.sid)>>
  /\ sends[input.send].pc = "break"
  /\ sends[input.send].n = 1
  /\ LogLength(files, input.sid) = sends[input.send].start + 2

\* C6: whenever an accepted send fails after the flag was set, the relay emits
\* an error event followed by a complete event.
C6_FailureEmitsErrorThenComplete ==
  \A i \in DOMAIN sends :
    sends[i].pc \in {"errored", "rejected"} => sends[i].closing = <<"error", "complete">>

\* C7: a session whose agent call hangs stays Processing only until the user
\* cancels: once the handle is signalled the flag becomes false.
C7_CancelFreesHungSession ==
  \A i \in SendIndexes :
    (/\ i \in DOMAIN sends
     /\ sends[i].hung
     /\ heap[sends[i].rec].abortController = "aborted")
      ~> (i \in DOMAIN sends /\ ~heap[sends[i].rec].isProcessing)

\* the agent event of the last step went out as one session event of its type
RelayedAsIs ==
  /\ Len(emitted) = 1
  /\ emitted[1].type = input.event.type
  /\ emitted[1].sessionId = sends[input.send].sid
  /\ emitted[1].payload = input.event.payload
  /\ emitted[1].isIntermediate = input.event.isIntermediate

\* C8 as stated: up to completion or cancellation, every agent event received
\* goes out as one session event of the same type with the session's id.
C8_EveryAgentEventRelayed ==
  input.op = "agent" => (sends[input.send].pc = "break" \/ RelayedAsIs)

\* C8: every agent event received goes out as one session event of the same
\* type with the session's id, up to completion, cancellation, or a failed
\* append: a final text_complete whose append fails is not relayed, and error
\* and complete are emitted in its place.
C8_RelayedUnlessAppendFails ==
  /\ input.op = "agent" =>
       \/ sends[input.send].pc = "break"
       \/ sends[input.send].pc = "await" /\ RelayedAsIs
       \/ /\ sends[input.send].pc = "throw"
          /\ emitted = << >>
          /\ input.event.type = "text_complete" /\ ~input.event.isIntermediate
          /\ ~Exists(files, input.sid)
  /\ \A i \in DOMAIN sends :
       sends[i].pc = "errored" => sends[i].closing = <<"error", "complete">>

\* the complete event was relayed after an earlier event of the same send
C8_Witness ==
  /\ input.op = "agent"
  /\ input.event.type = "complete"
  /\ emitted = <<SessionEv("complete", input.sid, << >>, FALSE)>>
  /\ sends[input.send].n = 1

----------------------------------------------------------------------------
(* Properties of the store *)

\* C9: after any N successful appends to a session, interleaved with metadata
\* updates and renames, loadSession returns exactly those N messages in order.
C9_LoadReturnsAppended ==
  \A id \in DOMAIN files :
    /\ loadSession(files, id) # Null
    /\ loadSession(files, id).messages = appended[id]

\* two messages were appended to a session whose name holds a newline
C9_Witness ==
  \E id \in DOMAIN files :
    /\ Len(appended[id]) = 2
    /\ appended[id][1].content = TrickyText
    /\ loadSession(files, id).session.name = TrickyText

\* C10: appendMessage on an id that has no log fails with not-found, creates
\* no file and leaves every log as it is.
C10_AppendToMissingFails ==
  \A id \in KnownIds \cup StoreIds : \A m \in Messages :
    ~Exists(files, id) => appendMessage(files, id, m, now) = [ok |-> FALSE, files |-> files]

\* an append was refused while another session had a log with a message
C10_Witness ==
  /\ lastAppend = "not-found"
  /\ \E id \in DOMAIN files : Len(appended[id]) >= 1

\* the records of a log: its lines, without the newline that ends the last one
Records(fs, id) ==
  LET n == Len(fs[id])
  IN Split(IF n > 0 /\ IsNL(fs[id][n]) THEN SubSeq(fs[id], 1, n - 1) ELSE fs[id])

IsRecord(line, type) == JsonParse(line).ok /\ JsonParse(line).type = type

\* C11: every existing log has the session-metadata record as its first record
\* and only message records after it.
C11_MetadataFirstThenMessages ==
  \A id \in DOMAIN files :
    LET recs == Records(files, id)
    IN /\ IsRecord(recs[1], "session")
       /\ \A k \in 2 .. Len(recs) : IsRecord(recs[k], "message")

\* a log that was renamed after a send had added a user and an assistant message
C11_Witness ==
  \E id \in DOMAIN files :
    /\ Len(Records(files, id)) >= 3
    /\ JsonParse(Records(files, id)[1]).data.name = TrickyText
    /\ JsonParse(Records(files, id)[3]).data.role = "assistant"

\* the message records of a log, as they are written
MessageRecords(fs, id) == Tail(Records(fs, id))

IsPrefix(a, b) == Len(a) <= Len(b) /\ SubSeq(b, 1, Len(a)) = a

\* what a log holds after its first line, the metadata record
AfterMetadata(content) ==
  LET k == CHOOSE i \in 1 .. Len(content) :
             IsNL(content[i]) /\ \A j \in 1 .. i - 1 : ~IsNL(content[j])
  IN SubSeq(content, k + 1, Len(content))

\* C12: messages are append-only: a step that keeps a log keeps every message
\* record of it unchanged and in place; a step that appends nothing to the log
\* (updateSessionMetadata, with a name or without) leaves its message records
\* as they are and touches no other log; messages go away only with their
\* log, in deleteSession.
C12_MessagesAppendOnly ==
  [][/\ \A id \in DOMAIN files :
          IF id \notin DOMAIN files' THEN files' = deleteSession(files, id).files
          ELSE \/ files'[id] = files[id]
               \/ /\ IsPrefix(AfterMetadata(files[id]), AfterMetadata(files'[id]))
                  /\ appended'[id] = appended[id]
                       => AfterMetadata(files'[id]) = AfterMetadata(files[id])
     /\ Cardinality({id \in DOMAIN files \cap DOMAIN files' : files'[id] # files[id]}) <= 1]_vars

\* a log with two messages whose metadata record was rewritten with a new name
C12_Witness ==
  \E id \in DOMAIN files :
    /\ Len(MessageRecords(files, id)) = 2
    /\ MessageRecords(files, id)[1] = StringifyMessage([role |-> "tool", content |-> TrickyText])
    /\ JsonParse(Records(files, id)[1]).data.name = << >>

\* the name loadSession returns for a session just created with the given name
NameAfterCreate(id, name) ==
  LET fs == (id :> createSession(id, name, now).content) @@ files
  IN IF loadSession(fs, id) = Null THEN Null ELSE loadSession(fs, id).session.name

\* a step that adds a log writes what createSession makes of some name
CreatesLog ==
  [][\A id \in DOMAIN files' \ DOMAIN files :
       \E name \in Names : files'[id] = createSession(id, name, now).content]_vars

\* C13 as stated: for every name passed to createSession, loadSession of the
\* new session returns that name.
C13_CreatedNameLoadsBack ==
  \A id \in StoreIds \ DOMAIN files : \A name \in Names :
    name.given => NameAfterCreate(id, name) = name.text

\* C13: for every non-empty name passed to createSession, loadSession of the
\* new session returns that name; for the empty name, and when no name is
\* passed, it returns 'New Chat'.
C13_NonEmptyNameLoadsBack ==
  /\ [] (\A id \in StoreIds \ DOMAIN files : \A name \in Names :
           NameAfterCreate(id, name) =
             IF name.given /\ name.text # << >> THEN name.text ELSE NewChat)
  /\ CreatesLog

\* a session just created with a name that holds a newline, next to a free id
C13_Witness ==
  /\ StoreIds \ DOMAIN files # {}
  /\ \E id \in DOMAIN files :
       /\ files[id] = createSession(id, [given |-> TRUE, text |-> TrickyText], now).content
       /\ loadSession(files, id).session.name = TrickyText

----------------------------------------------------------------------------
(* Properties of the listing *)

\* a file parses as a valid session: every non-empty line is JSON, and one of
\* them is a session-metadata record
ValidLog(content) ==
  LET lines == FilterNonEmpty(Split(content))
  IN /\ \A k \in DOMAIN lines : JsonParse(lines[k]).ok
     /\ \E k \in DOMAIN lines : JsonParse(lines[k]).type = "session"

\* the metadata a valid file holds: that of its last session-metadata record
SessionOf(content) ==
  LET lines == FilterNonEmpty(Split(content))
      sessions == SelectSeq(lines, LAMBDA l : JsonParse(l).type = "session")
  IN JsonParse(sessions[Len(sessions)]).data

Meta(item) == [id |-> item.id, name |-> item.name, updatedAt |-> item.updatedAt]

ValidFiles == {f \in DOMAIN files : ValidLog(files[f])}

\* C14: whatever order the directory is read in, listSessions returns exactly
\* one item for every file that parses as a valid session, skips the others,
\* and returns the items by updatedAt, most recent first.
C14_ListsValidLogsMostRecentFirst ==
  LET valid == ValidFiles
      metas == {<<f, SessionOf(files[f])>> : f \in valid}
  IN \A order \in ReaddirOrders(files) :
       LET listed == listSessions(files, order)
       IN /\ Len(listed) = Cardinality(valid)
          /\ \A m \in metas :
               Cardinality({k \in DOMAIN listed : Meta(listed[k]) = m[2]})
                 = Cardinality({n \in metas : n[2] = m[2]})
          /\ \A k \in 1 .. Len(listed) - 1 : listed[k].updatedAt >= listed[k + 1].updatedAt

\* a directory of one file that is corrupt after its metadata record and two
\* valid logs, of which the one read first is the older
C14_Witness ==
  /\ JunkFile \in DOMAIN files
  /\ IsRecord(Records(files, JunkFile)[1], "session")
  /\ ~ValidLog(files[JunkFile])
  /\ \E order \in ReaddirOrders(files) :
       /\ order[1] # JunkFile /\ order[2] # JunkFile
       /\ SessionOf(files[order[1]]).updatedAt < SessionOf(files[order[2]]).updatedAt
       /\ Len(listSessions(files, order)) = 2
       /\ listSessions(files, order)[1].id = order[2]

\* the user-role message records of a file, parsed, in the order of the file
UserMessages(content) ==
  LET lines == FilterNonEmpty(Split(content))
      parsed == [k \in DOMAIN lines |-> JsonParse(lines[k])]
  IN SelectSeq(parsed, LAMBDA p : p.ok /\ p.type = "message" /\ p.data.role = "user")

\* C15: for every session listed, the preview is the content of the first
\* user-role message of its log, cut to 100 characters, and it is absent only
\* when the log has no user message.
C15_PreviewIsFirstUserMessage ==
  \A order \in ReaddirOrders(files) :
    LET listed == listSessions(files, order)
    IN \A k \in DOMAIN listed :
         LET users == UserMessages(files[listed[k].id])
         IN listed[k].previewText =
              IF users = << >> THEN NoPreview
              ELSE [given |-> TRUE, text |-> Slice(users[1].data.content, PreviewLimit)]

----------------------------------------------------------------------------
(* Properties of the credentials file *)

\* C16: a load that reads the file a completed save wrote, unchanged since,
\* returns exactly the credentials of that save; the file holds the envelope
\* of the latest completed save only, so a load of the present file returns
\* the credentials of that save and nothing of an earlier one.
C16_LoadReturnsLatestSave ==
  /\ (cred.loaded.done /\ ~cred.loaded.absent /\ cred.loaded.intact)
       => cred.loaded.result = cred.loaded.stored
  /\ (cred.file # NoFile /\ cred.intact)
       => /\ cred.stored \in Credentials
          /\ loadCredentials(cred.file) = cred.stored

\* a load has returned the saved api key with its escaped characters, read
\* from an unchanged file
C16_Witness ==
  /\ cred.loaded.done /\ ~cred.loaded.absent /\ cred.loaded.intact
  /\ cred.loaded.result \in Credentials \ {NoCredentials}
  /\ cred.loaded.result.value = TrickyText

\* C17: loadCredentials always returns; it returns null where the file is
\* absent and where the file was changed after the save (ciphertext, tag,
\* salt, a missing field, no JSON at all), and it never returns credentials
\* other than the ones saved.
C17_LoadNullOnFailure ==
  cred.loaded.done =>
    /\ cred.loaded.absent => cred.loaded.result = Null
    /\ ~cred.loaded.intact => cred.loaded.result = Null
    /\ cred.loaded.result \in {Null, cred.loaded.stored}

\* a load has returned null for a file that was changed after an api key was
\* saved in it
C17_Witness ==
  /\ cred.loaded.done /\ ~cred.loaded.absent /\ ~cred.loaded.intact
  /\ cred.loaded.stored \in Credentials \ {NoCredentials}
  /\ cred.loaded.result = Null

----------------------------------------------------------------------------
(* Properties of the configuration *)

\* C18: whenever the config file is absent or does not parse, loadConfig
\* returns the default configuration (theme 'system', the other fields unset),
\* whatever get-config, set-config, set-theme and save-onboarding-config
\* requests came before; in particular get-config then answers the defaults.
C18_LoadConfigDefaultsOnFailure ==
  (conf.file = NoConfigFile \/ ~ConfigFileParses(conf)) =>
    /\ loadConfig(conf).value = defaultConfig
    /\ conf.got.op = "get-config" => conf.got.data = defaultConfig

\* C19: a config file written by the program satisfies the schema, and the
\* loadConfig that follows returns the configuration read from it instead of
\* falling back to the defaults.
C19_WrittenConfigSatisfiesSchema ==
  conf.written =>
    /\ conf.file.kind = "json"
    /\ SchemaOk(Spread(defaultConfig, conf.file.value))
    /\ ~loadConfig(conf).shared

----------------------------------------------------------------------------
(* Properties of the session handlers *)

\* C20: every answer of a session handler is a {success, data or error}
\* value, and a load-session, delete-session or rename-session request that
\* names an identifier with no log is answered success=false with the error
\* 'Session not found' and leaves the session store and the managed-session
\* table as they were.
C20_MissingSessionAnswersFailure ==
  /\ [](/\ DOMAIN conf.got = {"op", "success", "data", "error"}
        /\ conf.got.success \in BOOLEAN
        /\ ~conf.got.success => conf.got.error = NotFound)
  /\ [][\A sid \in KnownIds :
          (/\ ~Exists(files, sid)
           /\ \/ SessionLoadRequest(sid)
              \/ SessionDeleteRequest(sid)
              \/ SessionRenameRequest(sid, TrickyText))
            => /\ conf'.got.success = FALSE
               /\ conf'.got.error = NotFound
               /\ UNCHANGED <<files, table>>]_vars

\* delete-session was refused for the identifier that never names a log while
\* the table held a managed session under it, which it still holds
C20_Witness ==
  /\ conf.got = Failure("delete-session", NotFound)
  /\ conf.asked = Asked(NoSuchId, TRUE)
  /\ NoSuchId \in DOMAIN table
  /\ DOMAIN files # {}

----------------------------------------------------------------------------
(* Properties of the mirror and of sessions side by side *)

\* C21: for every session in the table whose log exists, the mirror's message
\* list is the (role, content) pairs of the user and assistant messages of
\* the log, in log order.
C21_MirrorIsLogProjection ==
  \A sid \in DOMAIN table :
    Exists(files, sid) =>
      LET msgs == loadSession(files, sid).messages
      IN heap[table[sid]].messages =
           SelectSeq(msgs, LAMBDA m : m.role \in {"user", "assistant"})

\* a session was first accessed when its log held a user and an assistant
\* message already, and a send has added its user message since
C21_Witness ==
  \E i \in DOMAIN sends :
    /\ sends[i].pc = "await"
    /\ sends[i].start = 2
    /\ sends[i].sid \in DOMAIN table
    /\ table[sends[i].sid] = 1
    /\ Len(heap[1].messages) = 3

\* the sessions a step touches: those whose managed record or log it changes,
\* whose send it starts or moves on, and those its events are labelled with
Touched ==
  {heap'[r].id : r \in {q \in DOMAIN heap' : q \notin DOMAIN heap \/ heap'[q] # heap[q]}}
    \cup {f \in DOMAIN files \cup DOMAIN files' :
            f \notin DOMAIN files \/ f \notin DOMAIN files' \/ files'[f] # files[f]}
    \cup {sends'[i].sid : i \in {j \in DOMAIN sends' : j \notin DOMAIN sends \/ sends'[j] # sends[j]}}
    \cup {emitted'[k].sessionId : k \in DOMAIN emitted'}
    \cup (DOMAIN table \ DOMAIN table') \cup (DOMAIN table' \ DOMAIN table)

\* C22: every step touches one session at most: a relay step for one session
\* (accepting a send, translating an agent event, observing a cancel, teardown)
\* changes no managed record and no log of another session, and every event it
\* emits carries its session's identifier.
C22_StepsTouchOneSession ==
  [][Cardinality(Touched) <= 1]_vars

\* an agent event has just been relayed for one session while a send on
\* another session is running with text in its buffer
C22_Witness ==
  /\ input.op = "agent"
  /\ emitted # << >>
  /\ \E j \in DOMAIN sends :
       /\ sends[j].sid # input.sid
       /\ sends[j].pc = "await"
       /\ heap[sends[j].rec].streamingText # << >>
       /\ Exists(files, sends[j].sid) /\ Exists(files, input.sid)

\* the step has emitted the user_message event
UserMessageEmitted(ev) == \E k \in DOMAIN ev : ev[k].type = "user_message"

\* C23: when the user_message event of a send is emitted, the user message is
\* the last message of the session's log and of its mirror; and a relay loop
\* receives agent events only for a send that was accepted with its
\* user_message event emitted, so no event of its stream precedes that event.
C23_UserMessageBeforeStream ==
  /\ [](UserMessageEmitted(emitted) =>
          /\ input.op = "send"
          /\ emitted = <<SessionEv("user_message", input.sid, UserText, FALSE)>>
          /\ loadSession(files, input.sid) # Null
          /\ LET msgs == loadSession(files, input.sid).messages
                 mirror == heap[table[input.sid]].messages
             IN /\ msgs # << >> /\ mirror # << >>
                /\ msgs[Len(msgs)] = [role |-> "user", content |-> UserText]
                /\ mirror[Len(mirror)] = [role |-> "user", content |-> UserText])
  /\ [][/\ \A i \in SendIndexes :
             Received(i) => i \in DOMAIN sends /\ sends[i].pc = "await"
        /\ (Len(sends') > Len(sends) /\ sends'[Len(sends')].pc = "await")
             <=> UserMessageEmitted(emitted')]_vars

\* the first agent event of a second send on a session has just been relayed,
\* the log ending with that send's user message
C23_Witness ==
  /\ input.op = "agent" /\ input.send = 2
  /\ emitted = <<SessionEv("turn_start", input.sid, << >>, FALSE)>>
  /\ sends[2].start = 2
  /\ LogLength(files, input.sid) = 3


\* complete and interrupted close a send for the listeners
Terminal(ev) == ev.type \in {"complete", "interrupted"}

Terminals(evs) == Cardinality({k \in DOMAIN evs : Terminal(evs[k])})

\* the user message of the send was persisted
Persisted(s) == s.pc # "rejected"

\* the relay task of send s is past the pass of its loop, or past the catch
\* block, that emits complete or interrupted
Closing(s) ==
  \/ s.pc \in {"break", "exhausted", "interrupted", "errored"}
  \/ s.pc = "await" /\ s.phase = "end"

\* the step is taken by the relay task of send i
TaskStep(i) ==
  \/ Received(i)
  \/ sends[i].pc \in {"break", "throw"} /\ sends'[i].pc \notin {"break", "throw"}

\* the safety half of C24: a task emits at most one terminal event, as the last
\* event of the step that closes the send, and nothing after it
AtMostOneTerminal ==
  [][\A i \in DOMAIN sends :
       Persisted(sends[i]) =>
         IF Closing(sends[i])
         THEN Closing(sends'[i]) /\ (TaskStep(i) => emitted' = << >>)
         ELSE TaskStep(i) =>
                /\ Terminals(emitted') <= 1
                /\ Closing(sends'[i]) <=> Terminals(emitted') = 1
                /\ Terminals(emitted') = 1 => Terminal(emitted'[Len(emitted')])]_vars

\* C24: every accepted send whose user message was persisted emits exactly one
\* terminal event, complete or interrupted, and no event after it.  The
\* statement is read in the way most favourable to it: a send whose agent call
\* hangs owes its terminal event only once the user has cancelled.
C24_OneTerminalEvent ==
  /\ AtMostOneTerminal
  /\ \A i \in SendIndexes :
       (i \in DOMAIN sends /\ Persisted(sends[i]))
         ~> /\ i \in DOMAIN sends
            /\ \/ Closing(sends[i])
               \/ sends[i].hung /\ heap[sends[i].rec].abortController # "aborted"


\* C25: at any time at most one relay task consumes an agent stream for a
\* session identifier, whatever the order of send-message, cancel-processing
\* and delete-session requests: also when the session is deleted while it is
\* Processing and further sends name the same identifier.
C25_OneRelayTaskPerSession ==
  \A i, j \in DOMAIN sends :
    (Running(sends[i]) /\ Running(sends[j]) /\ sends[i].sid = sends[j].sid) => i = j

\* a send was made to a session that was deleted while its first send ran: the
\* first relay task still consumes its stream
C25_Witness ==
  /\ input.op = "send"
  /\ Len(sends) = 2
  /\ sends[1].sid = input.sid /\ sends[1].pc = "await"
  /\ sends[2].sid = input.sid /\ sends[2].rec # sends[1].rec
  /\ ~Exists(files, input.sid)


\* C26: whenever a relay task consumes the agent stream of a session, a
\* cancel-processing request for that session sets the signal this task checks,
\* and the task emits interrupted at its next agent event: also when the
\* session was deleted while it was Processing.
C26_CancelReachesRunningTask ==
  /\ [](\A i \in DOMAIN sends :
          (/\ sends[i].cancelAsked
           /\ sends[i].pc = "await" /\ sends[i].phase = "run" /\ sends[i].n = 0)
            => Aborted(heap[sends[i].rec]))
  /\ [][\A i \in DOMAIN sends :
          (Aborted(heap[sends[i].rec]) /\ Received(i))
            => /\ emitted' = <<Interrupted(sends[i].sid)>>
               /\ sends'[i].pc = "break"]_vars


\* the session was created and its log has been deleted
Deleted(sid) == sid \in issued /\ ~Exists(files, sid)

\* C27: once delete-session has succeeded for a session, no log for that
\* identifier exists again: no step recreates it, a relay task still running
\* for the session and every later send to it leave all the logs as they are.
C27_DeletedLogStaysDeleted ==
  [][\A sid \in issued :
       Deleted(sid) =>
         /\ ~Exists(files', sid)
         /\ (input'.op \in {"send", "agent"} /\ input'.sid = sid) => files' = files]_vars

\* after the delete, the running task of the session received a final text and
\* a later send named the session
C27_Witness ==
  /\ Len(sends) = 2
  /\ sends[1].sid = sends[2].sid
  /\ Deleted(sends[1].sid)
  /\ sends[1].pc \in {"throw", "errored"}
  /\ sends[2].pc = "rejected"


\* C28: in every reachable state every managed session record has a non-null
\* cancellation handle exactly when its processing flag is set, and an empty
\* streaming-text buffer whenever the flag is clear.
C28_HandleFollowsFlag ==
  \A r \in DOMAIN heap :
    /\ heap[r].abortController # "null" <=> heap[r].isProcessing
    /\ ~heap[r].isProcessing => heap[r].streamingText = << >>

\* a cancelled send has ended and a second send runs on the same record
C28_Witness ==
  /\ Len(sends) = 2
  /\ sends[1].pc = "interrupted"
  /\ sends[2].rec = sends[1].rec
  /\ sends[2].pc = "await"
  /\ heap[sends[2].rec].isProcessing
  /\ heap[sends[2].rec].abortController = "open"


FinalText(ev) == ev.type = "text_complete" /\ ~ev.isIntermediate

\* C29: a text_complete session event with isIntermediate false is emitted
\* only once the assistant message with its text is the last message of the
\* session's log and of the mirror; when the append fails, no text_complete
\* event is emitted.
C29_FinalTextAfterAppend ==
  /\ [](\A k \in DOMAIN emitted :
          FinalText(emitted[k]) =>
            /\ input.op = "agent"
            /\ emitted[k].sessionId = input.sid
            /\ loadSession(files, input.sid) # Null
            /\ LET msgs == loadSession(files, input.sid).messages
                   mirror == heap[sends[input.send].rec].messages
                   assistantMsg == [role |-> "assistant", content |-> emitted[k].payload]
               IN /\ msgs # << >> /\ msgs[Len(msgs)] = assistantMsg
                  /\ mirror # << >> /\ mirror[Len(mirror)] = assistantMsg)
  /\ [][\A i \in DOMAIN sends :
          (Received(i) /\ FinalText(input'.event) /\ ~Exists(files, sends[i].sid))
            => /\ \A k \in DOMAIN emitted' : emitted'[k].type # "text_complete"
               /\ UNCHANGED <<files, heap>>]_vars

\* the second final text of a send was relayed
C29_Witness ==
  /\ input.op = "agent"
  /\ emitted # << >> /\ FinalText(emitted[1])
  /\ Len(sends[input.send].expect) = 2
  /\ LogLength(files, input.sid) = sends[input.send].start + 3


\* C30: a cancel-processing request made while the session is idle or during
\* an earlier send never interrupts a later send: every accepted send starts
\* with a new handle that is not signalled, a handle is signalled only by a
\* request made before the send that created it has run its finally block, and
\* interrupted is emitted only for a send whose handle is signalled.
C30_CancelNeverReachesLaterSend ==
  [][/\ Len(sends') > Len(sends) =>
          heap'[sends'[Len(sends')].rec].abortController = "open"
     /\ \A r \in DOMAIN heap :
          (Aborted(heap'[r]) /\ ~Aborted(heap[r]))
            => /\ heap[r].abortController = "open"
               /\ sends' = sends \/ \E i \in DOMAIN sends : sends'[i].cancelAsked # sends[i].cancelAsked
               /\ \E i \in DOMAIN sends :
                    /\ sends[i].rec = r /\ LastOnRecord(i)
                    /\ Running(sends[i]) \/ sends[i].pc = "rejected"
     /\ \A i \in DOMAIN sends :
          (Received(i) /\ \E k \in DOMAIN emitted' : emitted'[k].type = "interrupted")
            => Aborted(heap[sends[i].rec])]_vars

\* the first send of a session was cancelled and has ended; the second one has
\* run to its complete event
C30_Witness ==
  /\ Len(sends) = 2
  /\ sends[1].pc = "interrupted"
  /\ sends[2].rec = sends[1].rec
  /\ input.op = "agent" /\ input.send = 2
  /\ emitted = <<SessionEv("complete", input.sid, << >>, FALSE)>>
  /\ heap[sends[2].rec].abortController = "open"

====
